---- MODULE Spec2Model ----
(***************************************************************************)
(* Model of the two programs of go-light-rag-demo:                         *)
(*   - the demo main (magefiles/magefile.go, lines 193-285): opening the   *)
(*     three stores, the deferred graph.Close, Insert, Query, and Go's     *)
(*     panic/defer control flow;                                           *)
(*   - secrets.Load (internal/tools/secrets/secrets.go): the five steps    *)
(*     that read the configuration, create and authenticate a Bitwarden    *)
(*     client, fetch the secrets and export them to the environment.       *)
(* The collaborators (lrag, storage, bws, uuid, os) are external packages: *)
(* their outcomes are nondeterministic inputs of the actions.              *)
(***************************************************************************)
EXTENDS Naturals, Sequences, FiniteSets

VARIABLES
    \* ---- demo main ----
    pc,          \* position of main
    graph,       \* "unopened" | "open" | "closed" | "closeFailed"
    vec,         \* "unopened" | "open"
    kv,          \* "unopened" | "open"
    defers,      \* main's stack of deferred calls, last registered first
    panicVal,    \* "none", or the step whose error main panicked with
    closeCalls,  \* number of graph.Close invocations
    closeCtx,    \* the context handed to graph.Close
    logged,      \* log.Printf lines
    insertErr,   \* "unset" | "nil" | "err": what lrag.Insert returned
    queryCalls,  \* number of lrag.Query invocations
    printed,     \* whether the result was printed
    exitCode,    \* "running" | 0 | 2
    issued,      \* the calls main made into storage and lrag, each with
                 \* whether a context (deadline/cancellation) was passed
    \* ---- secrets.Load ----
    lpc,         \* position of Load
    env,         \* the process environment: a function from names to values
    env0,        \* the environment when Load was called
    accessToken, \* Load's local accessToken
    organizationID, \* Load's local organizationID
    client,      \* "none" | "open" | "closed"
    loggedIn,    \* whether AccessTokenLogin succeeded on the client
    secretIDs,   \* the ids FetchSecrets listed
    secrets,     \* the SecretsResponse data: a sequence of [Key, Value]
    idx,         \* SetEnvironmentVariables' loop position
    calls,       \* the steps Load has called, in order
    succeeded,   \* the steps that returned without error
    ret          \* "running" | "nil" | the error Load returned

mainVars == <<pc, graph, vec, kv, defers, panicVal, closeCalls, closeCtx,
              logged, insertErr, queryCalls, printed, exitCode, issued>>
loadVars == <<lpc, env, env0, accessToken, organizationID, client, loggedIn,
              secretIDs, secrets, idx, calls, succeeded, ret>>
vars == <<mainVars, loadVars>>

----------------------------------------------------------------------------
(* demo main *)

\* time.Second*30 of context.WithTimeout, in seconds
CloseTimeoutSec == 30

NoCtx == [deadline |-> 0, elapsed |-> 0, state |-> "none"]

\* A call main makes, and whether one of its arguments is a context.
Call(name, withCtx) == [call |-> name, ctx |-> withCtx]

MainInit ==
    /\ pc = "NewNeo4J"
    /\ graph = "unopened" /\ vec = "unopened" /\ kv = "unopened"
    /\ defers = <<>>
    /\ panicVal = "none"
    /\ closeCalls = 0
    /\ closeCtx = NoCtx
    /\ logged = <<>>
    /\ insertErr = "unset"
    /\ queryCalls = 0
    /\ printed = FALSE
    /\ exitCode = "running"
    /\ issued = <<>>

\* Leaving main's body, by return (e = "none") or by panic(e): the deferred
\* calls run, and with none left the process ends (status 2 after a panic).
Unwind(e) ==
    /\ panicVal' = e
    /\ IF defers # <<>>
         THEN pc' = "Deferred" /\ exitCode' = exitCode
         ELSE pc' = "Exited" /\ exitCode' = (IF e = "none" THEN 0 ELSE 2)

\* The mutant: the graph is opened and the deferred Close is not registered.
NewNeo4JOkNoDefer ==
    /\ pc = "NewNeo4J"
    /\ graph' = "open"
    /\ pc' = "NewChromem"
    /\ issued' = Append(issued, Call("storage.NewNeo4J", FALSE))
    /\ UNCHANGED <<vec, kv, defers, panicVal, closeCalls, closeCtx, logged,
                   insertErr, queryCalls, printed, exitCode, loadVars>>

\* storage.NewNeo4J succeeds; main registers the deferred close.
NewNeo4JOk ==
    /\ pc = "NewNeo4J"
    /\ graph' = "open"
    /\ defers' = <<"closeGraph">> \o defers
    /\ pc' = "NewChromem"
    /\ issued' = Append(issued, Call("storage.NewNeo4J", FALSE))
    /\ UNCHANGED <<vec, kv, panicVal, closeCalls, closeCtx, logged,
                   insertErr, queryCalls, printed, exitCode, loadVars>>

\* storage.NewNeo4J fails: panic(err) before any defer is registered.
NewNeo4JFail ==
    /\ pc = "NewNeo4J"
    /\ Unwind("NewNeo4J")
    /\ issued' = Append(issued, Call("storage.NewNeo4J", FALSE))
    /\ UNCHANGED <<graph, vec, kv, defers, closeCalls, closeCtx, logged,
                   insertErr, queryCalls, printed, loadVars>>

NewChromemOk ==
    /\ pc = "NewChromem"
    /\ vec' = "open"
    /\ pc' = "NewBolt"
    /\ issued' = Append(issued, Call("storage.NewChromem", FALSE))
    /\ UNCHANGED <<graph, kv, defers, panicVal, closeCalls, closeCtx, logged,
                   insertErr, queryCalls, printed, exitCode, loadVars>>

NewChromemFail ==
    /\ pc = "NewChromem"
    /\ Unwind("NewChromem")
    /\ issued' = Append(issued, Call("storage.NewChromem", FALSE))
    /\ UNCHANGED <<graph, vec, kv, defers, closeCalls, closeCtx, logged,
                   insertErr, queryCalls, printed, loadVars>>

NewBoltOk ==
    /\ pc = "NewBolt"
    /\ kv' = "open"
    /\ pc' = "Insert"
    /\ issued' = Append(issued, Call("storage.NewBolt", FALSE))
    /\ UNCHANGED <<graph, vec, defers, panicVal, closeCalls, closeCtx, logged,
                   insertErr, queryCalls, printed, exitCode, loadVars>>

NewBoltFail ==
    /\ pc = "NewBolt"
    /\ Unwind("NewBolt")
    /\ issued' = Append(issued, Call("storage.NewBolt", FALSE))
    /\ UNCHANGED <<graph, vec, kv, defers, closeCalls, closeCtx, logged,
                   insertErr, queryCalls, printed, loadVars>>

\* lrag.Insert returns nil.
InsertOk ==
    /\ pc = "Insert"
    /\ insertErr' = "nil"
    /\ pc' = "Query"
    /\ issued' = Append(issued, Call("lrag.Insert", FALSE))
    /\ UNCHANGED <<graph, vec, kv, defers, panicVal, closeCalls, closeCtx,
                   logged, queryCalls, printed, exitCode, loadVars>>

\* lrag.Insert returns an error: panic(err).
InsertFail ==
    /\ pc = "Insert"
    /\ insertErr' = "err"
    /\ Unwind("Insert")
    /\ issued' = Append(issued, Call("lrag.Insert", FALSE))
    /\ UNCHANGED <<graph, vec, kv, defers, closeCalls, closeCtx, logged,
                   queryCalls, printed, loadVars>>

\* lrag.Query returns a result: main prints it and returns.
QueryOk ==
    /\ pc = "Query"
    /\ queryCalls' = queryCalls + 1
    /\ printed' = TRUE
    /\ Unwind("none")
    /\ issued' = Append(issued, Call("lrag.Query", FALSE))
    /\ UNCHANGED <<graph, vec, kv, defers, closeCalls, closeCtx, logged,
                   insertErr, loadVars>>

QueryFail ==
    /\ pc = "Query"
    /\ queryCalls' = queryCalls + 1
    /\ Unwind("Query")
    /\ issued' = Append(issued, Call("lrag.Query", FALSE))
    /\ UNCHANGED <<graph, vec, kv, defers, closeCalls, closeCtx, logged,
                   insertErr, printed, loadVars>>

\* The mutant: graph.Close is called without a deadline.
DeferredCloseNoDeadline ==
    /\ pc = "Deferred"
    /\ defers # <<>> /\ Head(defers) = "closeGraph"
    /\ defers' = Tail(defers)
    /\ closeCtx' = NoCtx
    /\ closeCalls' = closeCalls + 1
    /\ pc' = "Closing"
    /\ issued' = Append(issued, Call("graph.Close", FALSE))
    /\ UNCHANGED <<graph, vec, kv, panicVal, logged, insertErr, queryCalls,
                   printed, exitCode, loadVars>>

\* The deferred function starts: context.WithTimeout, then graph.Close(closeCtx).
DeferredClose ==
    /\ pc = "Deferred"
    /\ defers # <<>> /\ Head(defers) = "closeGraph"
    /\ defers' = Tail(defers)
    /\ closeCtx' = [deadline |-> CloseTimeoutSec, elapsed |-> 0, state |-> "active"]
    /\ closeCalls' = closeCalls + 1
    /\ pc' = "Closing"
    /\ issued' = Append(issued, Call("graph.Close", TRUE))
    /\ UNCHANGED <<graph, vec, kv, panicVal, logged, insertErr, queryCalls,
                   printed, exitCode, loadVars>>

\* A second passes while graph.Close runs; at the deadline the context expires.
Tick ==
    /\ pc = "Closing"
    /\ closeCtx.state = "active"
    /\ closeCtx' = [closeCtx EXCEPT
                      !.elapsed = @ + 1,
                      !.state = IF closeCtx.elapsed + 1 >= closeCtx.deadline
                                  THEN "expired" ELSE "active"]
    /\ UNCHANGED <<pc, graph, vec, kv, defers, panicVal, closeCalls, logged,
                   insertErr, queryCalls, printed, exitCode, issued, loadVars>>

\* graph.Close returns err: a non-nil err is logged; closeCancel runs; with no
\* deferred call left the process ends.
CloseReturn(err) ==
    /\ pc = "Closing"
    /\ graph' = (IF err = "nil" THEN "closed" ELSE "closeFailed")
    /\ logged' = (IF err = "nil" THEN logged
                  ELSE Append(logged, "Error closing neo4jDB"))
    /\ closeCtx' = [closeCtx EXCEPT !.state = "canceled"]
    /\ IF defers # <<>>
         THEN pc' = "Deferred" /\ exitCode' = exitCode
         ELSE pc' = "Exited" /\ exitCode' = (IF panicVal = "none" THEN 0 ELSE 2)
    /\ UNCHANGED <<vec, kv, defers, panicVal, closeCalls, insertErr,
                   queryCalls, printed, issued, loadVars>>

MainNext ==
    \/ NewNeo4JOk \/ NewNeo4JFail
    \/ NewChromemOk \/ NewChromemFail
    \/ NewBoltOk \/ NewBoltFail
    \/ InsertOk \/ InsertFail
    \/ QueryOk \/ QueryFail
    \/ DeferredClose
    \/ Tick
    \/ \E err \in {"nil", "err"} : CloseReturn(err)

----------------------------------------------------------------------------
(* secrets.Load *)

\* Longest list of secrets the Bitwarden organisation holds.
MaxSecrets == 2

\* Sample values of ORGANIZATION_ID; uuid.Parse accepts the canonical
\* 36-character form and rejects a 10-character string (invalid length).
CanonicalUUID == "123e4567-e89b-12d3-a456-426614174000"
OrgIDValues == {"", "not-a-uuid", CanonicalUUID}
TokenValues == {"", "tok"}

\* uuid.Parse(s) returns a nil error.
UuidParseOk(s) == s = CanonicalUUID

\* Sample secret keys; os.Setenv returns EINVAL for a key containing '='.
SecretKeys == {"", "API_KEY", "ACCESS_TOKEN", "BAD=KEY"}
SecretValues == {"v1", "v2"}
SetenvFails(k) == k = "BAD=KEY"

Secret == [Key : SecretKeys, Value : SecretValues]

\* os.Getenv: the empty string for a name that is not set.
Getenv(e, k) == IF k \in DOMAIN e THEN e[k] ELSE ""

\* os.Setenv on the environment e.
Setenv(e, k, v) == [x \in DOMAIN e \cup {k} |-> IF x = k THEN v ELSE e[x]]

\* The environments Load may be called in: each of the two names is unset
\* or holds one of the sample values.
InitialEnvs ==
    { [x \in D |-> IF x = "ACCESS_TOKEN" THEN t ELSE o] :
        D \in SUBSET {"ACCESS_TOKEN", "ORGANIZATION_ID"},
        t \in TokenValues, o \in OrgIDValues }

LoadInit ==
    /\ lpc = "LoadConfig"
    /\ env \in InitialEnvs
    /\ env0 = env
    /\ accessToken = ""
    /\ organizationID = ""
    /\ client = "none"
    /\ loggedIn = FALSE
    /\ secretIDs = <<>>
    /\ secrets = <<>>
    /\ idx = 0
    /\ calls = <<>>
    /\ succeeded = {}
    /\ ret = "running"

\* Load returns e; the deferred client.Close runs when a client was created.
LoadReturn(e) ==
    /\ ret' = e
    /\ lpc' = "done"
    /\ client' = (IF client = "open" THEN "closed" ELSE client)

\* LoadConfig: both names set to non-empty values and a parsable UUID.
LoadConfig ==
    /\ lpc = "LoadConfig"
    /\ calls' = Append(calls, "LoadConfig")
    /\ LET t == Getenv(env, "ACCESS_TOKEN")
           o == Getenv(env, "ORGANIZATION_ID")
       IN  IF t = "" \/ o = ""
             THEN /\ LoadReturn("ACCESS_TOKEN and ORGANIZATION_ID must be set")
                  /\ UNCHANGED <<accessToken, organizationID, succeeded, mainVars>>
           ELSE IF ~UuidParseOk(o)
             THEN /\ LoadReturn("invalid uuid")
                  /\ UNCHANGED <<accessToken, organizationID, succeeded, mainVars>>
           ELSE /\ accessToken' = t
                /\ organizationID' = o
                /\ succeeded' = succeeded \cup {"LoadConfig"}
                /\ lpc' = "NewBitwardenClient"
                /\ UNCHANGED <<client, ret, mainVars>>
    /\ UNCHANGED <<env, env0, loggedIn, secretIDs, secrets, idx, mainVars>>

\* bws.NewBitwardenClient succeeds; Load defers client.Close.
NewBitwardenClientOk ==
    /\ lpc = "NewBitwardenClient"
    /\ calls' = Append(calls, "NewBitwardenClient")
    /\ client' = "open"
    /\ succeeded' = succeeded \cup {"NewBitwardenClient"}
    /\ lpc' = "Authenticate"
    /\ UNCHANGED <<env, env0, accessToken, organizationID, loggedIn,
                   secretIDs, secrets, idx, ret, mainVars>>

NewBitwardenClientFail ==
    /\ lpc = "NewBitwardenClient"
    /\ calls' = Append(calls, "NewBitwardenClient")
    /\ LoadReturn("error creating bitwarden client")
    /\ UNCHANGED <<env, env0, accessToken, organizationID, loggedIn,
                   secretIDs, secrets, idx, succeeded, mainVars>>

AuthenticateOk ==
    /\ lpc = "Authenticate"
    /\ calls' = Append(calls, "Authenticate")
    /\ loggedIn' = TRUE
    /\ succeeded' = succeeded \cup {"Authenticate"}
    /\ lpc' = "FetchSecrets"
    /\ UNCHANGED <<env, env0, accessToken, organizationID, client,
                   secretIDs, secrets, idx, ret, mainVars>>

\* The mutant: the login error is dropped and Load goes on to fetch.
AuthenticateFailIgnored ==
    /\ lpc = "Authenticate"
    /\ calls' = Append(calls, "Authenticate")
    /\ lpc' = "FetchSecrets"
    /\ UNCHANGED <<env, env0, accessToken, organizationID, client, loggedIn,
                   secretIDs, secrets, idx, succeeded, ret, mainVars>>

AuthenticateFail ==
    /\ lpc = "Authenticate"
    /\ calls' = Append(calls, "Authenticate")
    /\ LoadReturn("error logging in with access token")
    /\ UNCHANGED <<env, env0, accessToken, organizationID, loggedIn,
                   secretIDs, secrets, idx, succeeded, mainVars>>

\* FetchSecrets, first half: Secrets().List(organizationID) returns n identifiers.
FetchListOk(n) ==
    /\ lpc = "FetchSecrets"
    /\ calls' = Append(calls, "FetchSecrets")
    /\ secretIDs' = [i \in 1..n |-> i]
    /\ lpc' = "GetByIDS"
    /\ UNCHANGED <<env, env0, accessToken, organizationID, client, loggedIn,
                   secrets, idx, succeeded, ret, mainVars>>

FetchListFail ==
    /\ lpc = "FetchSecrets"
    /\ calls' = Append(calls, "FetchSecrets")
    /\ LoadReturn("error listing secrets")
    /\ UNCHANGED <<env, env0, accessToken, organizationID, loggedIn,
                   secretIDs, secrets, idx, succeeded, mainVars>>

\* FetchSecrets, second half: Secrets().GetByIDS(secretIDs) returns data.
FetchGetOk(data) ==
    /\ lpc = "GetByIDS"
    /\ Len(data) = Len(secretIDs)
    /\ secrets' = data
    /\ succeeded' = succeeded \cup {"FetchSecrets"}
    /\ lpc' = "SetEnvironmentVariables"
    /\ UNCHANGED <<env, env0, accessToken, organizationID, client, loggedIn,
                   secretIDs, idx, calls, ret, mainVars>>

FetchGetFail ==
    /\ lpc = "GetByIDS"
    /\ LoadReturn("error retrieving secrets")
    /\ UNCHANGED <<env, env0, accessToken, organizationID, loggedIn,
                   secretIDs, secrets, idx, calls, succeeded, mainVars>>

\* Load calls SetEnvironmentVariables(secrets).
SetEnvironmentVariablesCall ==
    /\ lpc = "SetEnvironmentVariables"
    /\ calls' = Append(calls, "SetEnvironmentVariables")
    /\ idx' = 1
    /\ lpc' = "SetenvLoop"
    /\ UNCHANGED <<env, env0, accessToken, organizationID, client, loggedIn,
                   secretIDs, secrets, succeeded, ret, mainVars>>

\* One iteration of the loop over secrets.Data.
SetenvSkip ==
    /\ lpc = "SetenvLoop"
    /\ idx <= Len(secrets)
    /\ secrets[idx].Key = ""
    /\ idx' = idx + 1
    /\ UNCHANGED <<lpc, env, env0, accessToken, organizationID, client,
                   loggedIn, secretIDs, secrets, calls, succeeded, ret, mainVars>>

SetenvOk ==
    /\ lpc = "SetenvLoop"
    /\ idx <= Len(secrets)
    /\ secrets[idx].Key # ""
    /\ ~SetenvFails(secrets[idx].Key)
    /\ env' = Setenv(env, secrets[idx].Key, secrets[idx].Value)
    /\ idx' = idx + 1
    /\ UNCHANGED <<lpc, env0, accessToken, organizationID, client, loggedIn,
                   secretIDs, secrets, calls, succeeded, ret, mainVars>>

SetenvFail ==
    /\ lpc = "SetenvLoop"
    /\ idx <= Len(secrets)
    /\ secrets[idx].Key # ""
    /\ SetenvFails(secrets[idx].Key)
    /\ LoadReturn("error setting env var")
    /\ UNCHANGED <<env, env0, accessToken, organizationID, loggedIn,
                   secretIDs, secrets, idx, calls, succeeded, mainVars>>

\* The loop is over: SetEnvironmentVariables and Load return nil.
SetenvDone ==
    /\ lpc = "SetenvLoop"
    /\ idx > Len(secrets)
    /\ succeeded' = succeeded \cup {"SetEnvironmentVariables"}
    /\ LoadReturn("nil")
    /\ UNCHANGED <<env, env0, accessToken, organizationID, loggedIn,
                   secretIDs, secrets, idx, calls, mainVars>>

SecretLists == UNION { [1..n -> Secret] : n \in 0..MaxSecrets }

LoadNext ==
    \/ LoadConfig
    \/ NewBitwardenClientOk \/ NewBitwardenClientFail
    \/ AuthenticateOk \/ AuthenticateFail
    \/ \E n \in 0..MaxSecrets : FetchListOk(n)
    \/ FetchListFail
    \/ \E data \in SecretLists : FetchGetOk(data)
    \/ FetchGetFail
    \/ SetEnvironmentVariablesCall
    \/ SetenvSkip \/ SetenvOk \/ SetenvFail \/ SetenvDone

----------------------------------------------------------------------------
(* specifications *)

\* Both programs at their entry.
Init == MainInit /\ LoadInit

\* The demo main runs; Load is not called, and the environment is empty.
MainOnlyInit == Init /\ env = << >>
SpecMain == MainOnlyInit /\ [][MainNext]_vars

\* secrets.Load runs; main has not started.
SpecLoad == Init /\ [][LoadNext]_vars

Next == MainNext \/ LoadNext
Spec == Init /\ [][Next]_vars

----------------------------------------------------------------------------
(* properties of the demo main *)

C9_CloseOnceOnEveryExit ==
    /\ closeCalls <= 1
    /\ closeCalls = 1 => closeCtx.deadline = CloseTimeoutSec
    /\ (pc = "Exited" /\ graph # "unopened") =>
          /\ closeCalls = 1
          /\ closeCtx.deadline = CloseTimeoutSec
    /\ queryCalls > 0 => insertErr = "nil"
    /\ pc = "Query" => insertErr = "nil"

\* C9 witness: main panicked on Query's error, after Insert returned nil, and
\* ended with status 2 having closed the graph once.
C9_Witness ==
    /\ pc = "Exited"
    /\ panicVal = "Query"
    /\ exitCode = 2
    /\ insertErr = "nil"
    /\ closeCalls = 1

----------------------------------------------------------------------------
(* properties of secrets.Load *)

StepOrder == <<"LoadConfig", "NewBitwardenClient", "Authenticate",
               "FetchSecrets", "SetEnvironmentVariables">>

\* The step an error of Load comes from.
ErrStep(e) ==
    CASE e \in {"ACCESS_TOKEN and ORGANIZATION_ID must be set", "invalid uuid"}
            -> "LoadConfig"
      [] e = "error creating bitwarden client" -> "NewBitwardenClient"
      [] e = "error logging in with access token" -> "Authenticate"
      [] e \in {"error listing secrets", "error retrieving secrets"}
            -> "FetchSecrets"
      [] e = "error setting env var" -> "SetEnvironmentVariables"
      [] OTHER -> "none"

\* C10: Load calls its steps in the fixed order, each only after all earlier
\* ones succeeded; an error it returns is the error of the last step called,
\* and nil is returned only when all five succeeded; the environment differs
\* from the one Load started in, and the loop calling os.Setenv is entered,
\* only if the four earlier steps succeeded; a
\* client exists only if ACCESS_TOKEN was non-empty and ORGANIZATION_ID a
\* parsable UUID; and when Load has returned, a client it created is closed.
C10_LoadStepsInOrder ==
    /\ Len(calls) <= Len(StepOrder)
    /\ calls = SubSeq(StepOrder, 1, Len(calls))
    /\ \A i \in 1..(Len(calls) - 1) : calls[i] \in succeeded
    /\ ret \notin {"running", "nil"} =>
          /\ calls # <<>>
          /\ ErrStep(ret) = calls[Len(calls)]
          /\ ErrStep(ret) \notin succeeded
    /\ ret = "nil" => succeeded = {StepOrder[i] : i \in DOMAIN StepOrder}
    /\ (env # env0 \/ lpc = "SetenvLoop") =>
          {"LoadConfig", "NewBitwardenClient", "Authenticate", "FetchSecrets"}
              \subseteq succeeded
    /\ client # "none" =>
          /\ Getenv(env0, "ACCESS_TOKEN") # ""
          /\ Getenv(env0, "ORGANIZATION_ID") # ""
          /\ UuidParseOk(Getenv(env0, "ORGANIZATION_ID"))
    /\ ret # "running" => client \in {"none", "closed"}

\* C10 witness: Load returned nil having set a variable and closed its client.
C10_Witness ==
    /\ ret = "nil"
    /\ env # env0
    /\ client = "closed"
    /\ \E i \in DOMAIN secrets : secrets[i].Key = ""

====
